---------------------------- MODULE Spec2Model ----------------------------
(***************************************************************************)
(* A model of src/sudoku.rs: the Sudoku value (grid: [u8; 81], is_solved),  *)
(* its three constructors (TryFrom<[u8; 81]>, TryFrom<[[u8; 9]; 9]>,        *)
(* Default) and the recursive backtracking search solve_internals, run as   *)
(* an explicit call stack with one action per step of the function body.   *)
(***************************************************************************)
EXTENDS Integers, Sequences, FiniteSets

VARIABLES
    phase,      \* "new" | "constructed" | "rejected" | "solving" | "done"
    arg,        \* the argument handed to the constructor
    result,     \* "none" | "Ok" | "InvalidCell": what the constructor returned
    grid,       \* Sudoku::grid, indexed 0..80
    is_solved,  \* Sudoku::is_solved
    stack,      \* the active solve_internals calls, outermost first
    input,      \* history: the grid as it was when solve was called
    wrote       \* history: the cells assigned to since solve was called

vars == <<phase, arg, result, grid, is_solved, stack, input, wrote>>

-----------------------------------------------------------------------------
(* Program constants *)

Side == 9
CellCount == 81
BandCells == 27
MaxCell == 9
U8Max == 255

Cells == 0 .. (CellCount - 1)
Lines == 0 .. (Side - 1)
Digits == 1 .. MaxCell

-----------------------------------------------------------------------------
(* Bounds of the checked input family *)

\* The most cells of Pool a checked input has blanked.
MaxBlanks == 4

\* The solution of the example puzzle of the specification, row by row.
SolvedRows ==
    << <<5,3,4, 6,7,8, 9,1,2>>,
       <<6,7,2, 1,9,5, 3,4,8>>,
       <<1,9,8, 3,4,2, 5,6,7>>,
       <<8,5,9, 7,6,1, 4,2,3>>,
       <<4,2,6, 8,5,3, 7,9,1>>,
       <<7,1,3, 9,2,4, 8,5,6>>,
       <<9,6,1, 5,3,7, 2,8,4>>,
       <<2,8,7, 4,1,9, 6,3,5>>,
       <<3,4,5, 2,8,6, 1,7,9>> >>

SolvedGrid == [i \in Cells |-> SolvedRows[(i \div 9) + 1][(i % 9) + 1]]

\* Cells an input may have blanked.  22, 23, 49, 50 are the corners of a
\* rectangle holding 4 2 / 2 4, so blanking all four leaves two completions.
Pool == {22, 23, 49, 50, 66, 80}

BlankSets == {B \in SUBSET Pool : Cardinality(B) <= MaxBlanks}

\* One given may be overwritten: by a digit that clashes with its row, or by
\* a value no cell may hold.
NoEdit == [cell |-> 0, val |-> SolvedGrid[0]]
Edits == {NoEdit} \cup [cell : {21, 76}, val : {4, 10, U8Max}]

FlatInput(B, e) ==
    [i \in Cells |-> IF i \in B THEN 0
                     ELSE IF i = e.cell THEN e.val
                     ELSE SolvedGrid[i]]

FlatInputs == {FlatInput(B, e) : B \in BlankSets, e \in Edits}

\* The 9x9 nested array whose row r, column c is f[r*9 + c].
Nest(f) == [r \in Lines |-> [c \in Lines |-> f[r * 9 + c]]]

Args ==
    [kind : {"flat"}, cells : FlatInputs]
    \cup [kind : {"nested"}, cells : {Nest(f) : f \in FlatInputs}]
    \cup {[kind |-> "default", cells |-> <<>>]}

-----------------------------------------------------------------------------
(* Pure functions of the source *)

ZeroGrid == [i \in Cells |-> 0]

\* flatten gone wrong: the input read column by column.
flatten_transposed(input_grid) ==
    [i \in Cells |-> input_grid[i % 9][i \div 9]]

\* fn flatten: the k-th chunk of 9 cells of the result is filled, position by
\* position, from the k-th row of the input.
flatten(input_grid) ==
    [i \in Cells |->
        LET k == CHOOSE k \in Lines : i \in (k * 9) .. (k * 9 + 8)
            j == i - k * 9
        IN  input_grid[k][j]]

\* chunks_exact(9).nth(row_index): the cells of one row.
RowChunk(row_index) == {row_index * 9 + k : k \in 0 .. 8}

is_row_valid(g, number, row_index) ==
    ~ \E i \in RowChunk(row_index) : g[i] = number

is_column_valid(g, number, col_index) ==
    ~ \E r \in Lines : g[r * 9 + col_index] = number

\* chunks_exact(27).nth(y / 3), then of each of its rows chunks_exact(3).nth(x / 3).
BoxChunk(x, y) ==
    {BandCells * (y \div 3) + 9 * r + 3 * (x \div 3) + k : r \in 0 .. 2, k \in 0 .. 2}

is_cell_valid(g, number, x, y) ==
    ~ \E i \in BoxChunk(x, y) : g[i] = number

\* is_valid gone wrong: the box check left out.
is_valid_without_box(g, number, x, y) ==
    /\ is_row_valid(g, number, y)
    /\ is_column_valid(g, number, x)

is_valid(g, number, x, y) ==
    /\ is_row_valid(g, number, y)
    /\ is_column_valid(g, number, x)
    /\ is_cell_valid(g, number, x, y)

get_coordinates(curr_idx) == <<curr_idx % 9, curr_idx \div 9>>

\* The validation gone wrong: n >= 9 for n > 9.
FlatHasInvalidFrom9(g) == \E i \in Cells : g[i] >= MaxCell

\* grid.iter().any(|n| *n > 9)
FlatHasInvalid(g) == \E i \in Cells : g[i] > MaxCell

\* input_grid.iter().any(|row| row.iter().any(|n| *n > 9))
NestedHasInvalid(m) == \E r \in Lines : \E c \in Lines : m[r][c] > MaxCell

Err == [result |-> "InvalidCell", grid |-> <<>>, is_solved |-> FALSE]
Ok(g) == [result |-> "Ok", grid |-> g, is_solved |-> FALSE]

\* impl TryFrom<[u8; 81]> for Sudoku
try_from_flat(g) == IF FlatHasInvalid(g) THEN Err ELSE Ok(g)

\* impl TryFrom<[[u8; 9]; 9]> for Sudoku
try_from_nested(m) == IF NestedHasInvalid(m) THEN Err ELSE Ok(flatten(m))

\* impl Default for Sudoku
default == Ok(ZeroGrid)

\* if curr_idx == 81
IsTerminal(curr_idx) == curr_idx = CellCount

\* The given test gone wrong: every cell is searched.
IsGivenNever(g, curr_idx) == FALSE

\* if self.grid[curr_idx] != 0
IsGiven(g, curr_idx) == g[curr_idx] # 0

\* The recursive call gone wrong: curr_idx for curr_idx + 1.
NextIdxSame(curr_idx) == curr_idx

\* The index both recursive calls pass on: curr_idx + 1.
NextIdx(curr_idx) == curr_idx + 1

\* The range gone wrong: 9 down to 1.
CandidateDescending(k) == 10 - k

\* for n in 1..=9: the k-th value the range yields.
Candidate(k) == k

\* The range gone wrong: 1..9, which leaves 9 out.
ExhaustedBefore9(k) == k >= MaxCell

\* for n in 1..=9: whether the range has yielded all its values after k - 1 of them.
Exhausted(k) == k > MaxCell

\* The assignment gone wrong: the cell after curr_idx is written.
PlacedAfter(g, curr_idx, n) == [g EXCEPT ![curr_idx + 1] = n]

\* self.grid[curr_idx] = n;
Placed(g, curr_idx, n) == [g EXCEPT ![curr_idx] = n]

\* The reset gone wrong: left out.
ClearedNot(g, curr_idx) == g

\* self.grid[curr_idx] = 0;
Cleared(g, curr_idx) == [g EXCEPT ![curr_idx] = 0]

-----------------------------------------------------------------------------
(* State *)

Init ==
    /\ phase = "new"
    /\ arg \in Args
    /\ result = "none"
    /\ grid = ZeroGrid
    /\ is_solved = FALSE
    /\ stack = <<>>
    /\ input = ZeroGrid
    /\ wrote = {}

(* Constructors *)

\* The constructor returns r: a Sudoku, or the error and no value.
Construct(r) ==
    /\ result' = r.result
    /\ IF r.result = "Ok"
       THEN /\ phase' = "constructed"
            /\ grid' = r.grid
            /\ is_solved' = r.is_solved
       ELSE /\ phase' = "rejected"
            /\ UNCHANGED <<grid, is_solved>>
    /\ UNCHANGED <<arg, stack, input, wrote>>

TryFromFlat ==
    /\ phase = "new"
    /\ arg.kind = "flat"
    /\ Construct(try_from_flat(arg.cells))

TryFromNested ==
    /\ phase = "new"
    /\ arg.kind = "nested"
    /\ Construct(try_from_nested(arg.cells))

Default ==
    /\ phase = "new"
    /\ arg.kind = "default"
    /\ Construct(default)

-----------------------------------------------------------------------------
(* solve and solve_internals *)

Frame(curr_idx) == [curr_idx |-> curr_idx, n |-> 0, pc |-> "entry"]

Top == stack[Len(stack)]

\* The top frame replaced by f.
SetTop(f) == [stack EXCEPT ![Len(stack)] = f]

\* The top call returns; the outermost return ends solve.
Return ==
    /\ stack' = SubSeq(stack, 1, Len(stack) - 1)
    /\ phase' = IF Len(stack) = 1 THEN "done" ELSE "solving"

\* The top call calls solve_internals(curr_idx + 1) and will continue at pc.
Call(pc) ==
    /\ stack' = Append(SetTop([Top EXCEPT !.pc = pc]), Frame(NextIdx(Top.curr_idx)))
    /\ phase' = "solving"

\* pub fn solve: may be called on any constructed value, again after it returned.
Solve ==
    /\ phase \in {"constructed", "done"}
    /\ phase' = "solving"
    /\ stack' = <<Frame(0)>>
    /\ input' = grid
    /\ wrote' = {}
    /\ UNCHANGED <<arg, result, grid, is_solved>>

\* if curr_idx == 81 { self.is_solved = true; return; }
Terminal ==
    /\ phase = "solving"
    /\ Top.pc = "entry"
    /\ IsTerminal(Top.curr_idx)
    /\ is_solved' = TRUE
    /\ Return
    /\ UNCHANGED <<arg, result, grid, input, wrote>>

\* if self.grid[curr_idx] != 0 { self.solve_internals(curr_idx + 1); }
Skip ==
    /\ phase = "solving"
    /\ Top.pc = "entry"
    /\ ~ IsTerminal(Top.curr_idx)
    /\ IsGiven(grid, Top.curr_idx)
    /\ Call("skip_ret")
    /\ UNCHANGED <<arg, result, grid, is_solved, input, wrote>>

\* The call made by the skip branch has returned: so does this one.
SkipReturn ==
    /\ phase = "solving"
    /\ Top.pc = "skip_ret"
    /\ Return
    /\ UNCHANGED <<arg, result, grid, is_solved, input, wrote>>

\* else { for n in 1..=9 {
EnterLoop ==
    /\ phase = "solving"
    /\ Top.pc = "entry"
    /\ ~ IsTerminal(Top.curr_idx)
    /\ ~ IsGiven(grid, Top.curr_idx)
    /\ stack' = SetTop([Top EXCEPT !.pc = "loop", !.n = 1])
    /\ UNCHANGED <<phase, arg, result, grid, is_solved, input, wrote>>

\* if self.is_valid(n, ..) { self.grid[curr_idx] = n; self.solve_internals(curr_idx + 1);
Place ==
    /\ phase = "solving"
    /\ Top.pc = "loop"
    /\ ~ Exhausted(Top.n)
    /\ LET xy == get_coordinates(Top.curr_idx)
       IN  is_valid(grid, Candidate(Top.n), xy[1], xy[2])
    /\ grid' = Placed(grid, Top.curr_idx, Candidate(Top.n))
    /\ wrote' = wrote \cup {Top.curr_idx}
    /\ Call("after")
    /\ UNCHANGED <<arg, result, is_solved, input>>

\* is_valid is false: the next n.
Reject ==
    /\ phase = "solving"
    /\ Top.pc = "loop"
    /\ ~ Exhausted(Top.n)
    /\ LET xy == get_coordinates(Top.curr_idx)
       IN  ~ is_valid(grid, Candidate(Top.n), xy[1], xy[2])
    /\ stack' = SetTop([Top EXCEPT !.n = Top.n + 1])
    /\ UNCHANGED <<phase, arg, result, grid, is_solved, input, wrote>>

\* if self.is_solved { return; }
Found ==
    /\ phase = "solving"
    /\ Top.pc = "after"
    /\ is_solved
    /\ Return
    /\ UNCHANGED <<arg, result, grid, is_solved, input, wrote>>

\* The call returned without a solution: the next n.
Retry ==
    /\ phase = "solving"
    /\ Top.pc = "after"
    /\ ~ is_solved
    /\ stack' = SetTop([Top EXCEPT !.pc = "loop", !.n = Top.n + 1])
    /\ UNCHANGED <<phase, arg, result, grid, is_solved, input, wrote>>

\* The loop is over: self.grid[curr_idx] = 0; and the call returns.
Backtrack ==
    /\ phase = "solving"
    /\ Top.pc = "loop"
    /\ Exhausted(Top.n)
    /\ grid' = Cleared(grid, Top.curr_idx)
    /\ wrote' = wrote \cup {Top.curr_idx}
    /\ Return
    /\ UNCHANGED <<arg, result, is_solved, input>>

Next ==
    \/ TryFromFlat
    \/ TryFromNested
    \/ Default
    \/ Solve
    \/ Terminal
    \/ Skip
    \/ SkipReturn
    \/ EnterLoop
    \/ Place
    \/ Reject
    \/ Found
    \/ Retry
    \/ Backtrack

Spec == Init /\ [][Next]_vars


\* A step of a running solve: the call is synchronous and runs to its return.
SolveStep ==
    \/ Terminal
    \/ Skip
    \/ SkipReturn
    \/ EnterLoop
    \/ Place
    \/ Reject
    \/ Found
    \/ Retry
    \/ Backtrack

FairSpec == Spec /\ WF_vars(SolveStep)

-----------------------------------------------------------------------------
(* What the claims speak of, stated without the search's own checks *)

SameRow(i, j) == i \div 9 = j \div 9
SameColumn(i, j) == i % 9 = j % 9
SameBox(i, j) == (i \div 27 = j \div 27) /\ ((i % 9) \div 3 = (j % 9) \div 3)

\* For each cell, the other cells of its row, its column and its 3x3 box.
PeersOf ==
    [i \in Cells |->
        {j \in Cells : j # i /\ (SameRow(i, j) \/ SameColumn(i, j) \/ SameBox(i, j))}]

Blanks(g) == {i \in Cells : g[i] = 0}

NoBlank(g) == \A i \in Cells : g[i] # 0

\* No two cells of a row, a column or a box hold equal nonzero values.
NoDuplicates(g) == \A i \in Cells : g[i] = 0 \/ \A j \in PeersOf[i] : g[j] # g[i]

\* A finished sudoku: every cell in 1..=9 and no duplicate.
ValidFull(g) == (\A i \in Cells : g[i] \in Digits) /\ NoDuplicates(g)

\* h keeps every given of g.
KeepsGivens(g, h) == \A i \in Cells : g[i] # 0 => h[i] = g[i]

\* g with its blank cells filled by f.
Fill(g, f) == [i \in Cells |-> IF i \in DOMAIN f THEN f[i] ELSE g[i]]

\* The value of cell j in Fill(g, f).
FilledAt(g, f, j) == IF j \in DOMAIN f THEN f[j] ELSE g[j]

\* Fill(g, f) is a finished sudoku, for g with values in 0..=9: the givens do not
\* clash with each other, and no filled cell clashes with a peer.
FillIsValid(g, f) ==
    \A b \in DOMAIN f : \A j \in PeersOf[b] : FilledAt(g, f, j) # f[b]

\* The valid completions of g: every assignment of 1..=9 to the blank cells that
\* leaves no row, column or box with a duplicate.
Completions(g) ==
    IF NoDuplicates(g)
    THEN {Fill(g, f) : f \in {f \in [Blanks(g) -> Digits] : FillIsValid(g, f)}}
    ELSE {}

\* The inputs whose completions are enumerated: those with few blank cells.
Enumerable(g) == Cardinality(Blanks(g)) <= Cardinality(Pool)

\* g comes before h, or is h, reading the cells in linear-index order.
LexLeq(g, h) ==
    \/ g = h
    \/ \E i \in Cells : g[i] < h[i] /\ \A j \in 0 .. (i - 1) : g[j] = h[j]

Depth == Len(stack)

Returned == phase = "done"
Running == phase \in {"solving", "done"}

-----------------------------------------------------------------------------
(* The claims *)

\* C1: whenever is_solved is true after solve returns, the grid has no blank
\* cell and no two cells of a row, a column or a box hold equal nonzero values,
\* for every grid a constructor accepts.
C1_SolvedImpliesValid ==
    (Returned /\ is_solved) => (NoBlank(grid) /\ NoDuplicates(grid))

\* C2: for an input that has a valid completion, solve returns with is_solved
\* true and the grid a valid completion of the input.
C2_SolvableIsSolved ==
    (Returned /\ Enumerable(input) /\ Completions(input) # {})
        => (is_solved /\ ValidFull(grid) /\ KeepsGivens(input, grid)
            /\ grid \in Completions(input))

C2_Witness ==
    /\ Returned
    /\ Cardinality(Blanks(input)) = MaxBlanks
    /\ Completions(input) # {}
    /\ is_solved

\* C3: in every state during solve and after it, every given of the input holds
\* its value, and only cells blank in the input have been written.
C3_GivensPreserved ==
    Running => (KeepsGivens(input, grid) /\ wrote \subseteq Blanks(input))

C3_Witness ==
    /\ phase = "solving"
    /\ wrote # {}
    /\ \E i \in Cells : input[i] # 0 /\ i > Top.curr_idx
    /\ Top.pc = "loop"
    /\ Top.n > 1

\* C4: if solve returns with is_solved false, the grid equals the input cell
\* for cell.
C4_UnsolvedRestored ==
    (Returned /\ ~ is_solved) => grid = input

C4_Witness ==
    /\ Returned
    /\ ~ is_solved
    /\ Cardinality(wrote) >= 2
    /\ NoDuplicates(input)

\* C5: solve on a full valid grid, fresh or left by an earlier solve, writes no
\* cell, leaves the grid unchanged and ends with is_solved true.
C5_SolvedIsFixed ==
    Running =>
        \/ (wrote = {} /\ grid = input /\ (Returned => is_solved))
        \/ ~ ValidFull(input)

C5_Witness ==
    /\ Returned
    /\ ValidFull(input)
    /\ arg.kind = "default"

\* C6: the flat constructor fails with InvalidCell exactly when some cell is
\* greater than 9; when it succeeds the grid is the input and is_solved is false.
C6_FlatValidation ==
    (arg.kind = "flat" /\ phase \in {"constructed", "rejected"})
        => /\ result = "InvalidCell" <=> \E i \in Cells : arg.cells[i] > 9
           /\ result = "Ok" <=> \A i \in Cells : arg.cells[i] <= 9
           /\ result = "Ok" => (grid = arg.cells /\ ~ is_solved)

C6_Witness ==
    /\ arg.kind = "flat"
    /\ phase = "constructed"
    /\ \E i \in Cells : grid[i] = 9
    /\ \E i \in Cells : grid[i] # 0 /\ \E j \in PeersOf[i] : grid[j] = grid[i]

\* C7: the nested constructor has the outcome of the flat constructor applied to
\* the row-major flattening of its argument, row r column c at index r*9 + c.
C7_NestedIsFlatOfRowMajor ==
    (arg.kind = "nested" /\ phase \in {"constructed", "rejected"})
        => LET m == arg.cells
               flat == try_from_flat([i \in Cells |-> m[i \div 9][i % 9]])
           IN  /\ result = flat.result
               /\ result = "Ok" =>
                    /\ grid = flat.grid
                    /\ is_solved = flat.is_solved
                    /\ \A r \in Lines : \A c \in Lines : grid[r * 9 + c] = m[r][c]

C7_Witness ==
    /\ arg.kind = "nested"
    /\ phase = "constructed"
    /\ \E r \in Lines : \E c \in Lines : arg.cells[r][c] # arg.cells[c][r]

\* C8: solve on the empty grid ends, with is_solved true, every cell in 1..=9
\* and no row, column or box holding a duplicate.
C8_EmptyGridSolved ==
    /\ [](Returned /\ input = ZeroGrid => is_solved /\ ValidFull(grid))
    /\ (phase = "solving" /\ input = ZeroGrid) ~> (Returned /\ input = ZeroGrid)

C8_Witness ==
    /\ Returned
    /\ input = ZeroGrid
    /\ is_solved
    /\ wrote = Cells

\* C9: for an input with a valid completion, the grid solve leaves is the least
\* valid completion in the lexicographic order of the cells read by linear index.
C9_FirstSolutionIsLeast ==
    (Returned /\ Enumerable(input) /\ Completions(input) # {})
        => /\ grid \in Completions(input)
           /\ \A h \in Completions(input) : LexLeq(grid, h)

C9_Witness ==
    /\ Returned
    /\ Enumerable(input)
    /\ Cardinality(Completions(input)) >= 2
    /\ grid # SolvedGrid

\* C10 as stated: every active call's curr_idx is within 0..=81 and no more than
\* 81 calls of solve_internals are active at once.
C10_DepthAtMost81 ==
    /\ \A k \in 1 .. Depth : stack[k].curr_idx \in 0 .. 81
    /\ Depth <= 81

\* C10 amended: every active call's curr_idx is within 0..=81 and no more than
\* 82 calls of solve_internals are active at once.
C10_DepthAtMost82 ==
    /\ \A k \in 1 .. Depth : stack[k].curr_idx \in 0 .. 81
    /\ Depth <= 82

C10_Witness ==
    /\ Depth = 82
    /\ Top.curr_idx = 81

=============================================================================
